---- MODULE Spec2Model ----
(***************************************************************************)
(* Storage accounting, trash lifecycle and quota admission of cloudvts     *)
(* (storage_app/models.py, storage_app/views.py), for one owner.           *)
(*                                                                         *)
(* Every view filters its rows by owner=request.user, so the rows of one   *)
(* user are modelled.  Sizes are bytes, time is counted in days.  Every    *)
(* uploaded file has its own file name, hence its own blob key.            *)
(***************************************************************************)
EXTENDS Integers, Sequences, FiniteSets, TLC

\* ---------------------------------------------------------------- bounds
MaxFiles == 2
MaxFolders == 2
MaxSize == 3
MaxTime == 1
MaxPlanFile == 2
MaxPlanStorage == 3
MaxTrash == 3
MaxOverdraw == 2
TreeFiles == 1
MaxLinks == 1
MaxPlans == 4
MaxPlanInput == 1

\* ------------------------------------------------------ program constants
TrashDays == 30

FileIds == 1..MaxFiles
FolderIds == 1..MaxFolders
Names == 1..MaxFolders
Sizes == 1..MaxSize
Workers == {1, 2}
Sessions == {1, 2}
TreeFileIds == 1..TreeFiles
NoFolder == 0
NoFile == 0
Tokens == 1..MaxLinks
Never == -1

VARIABLES
    files,          \* File rows: id -> [size, folder, is_deleted]
    folders,        \* Folder rows: id -> [parent_folder, is_deleted, name]
    trash,          \* Trash rows in creation order
    blobs,          \* ids of the files whose blob is in the object store
    used_storage,   \* UserProfile.used_storage
    plan,           \* the sizes of the profile's StoragePlan, in bytes
    plans,          \* StoragePlan rows: id -> row, sizes in KB
    now,            \* timezone.now(), in days
    nextFile,       \* number of File rows created so far
    nextFolder,     \* number of Folder rows created so far
    resp,           \* the response of the last request
    req,            \* the requests in flight, one per worker
    links,          \* ShareLink rows: token -> row
    sessions        \* session store: session -> tokens with share_verified_

vars == <<files, folders, trash, blobs, used_storage, plan, now,
          nextFile, nextFolder, resp, req, links, sessions, plans>>

\* The rows a handler reads and writes, as one value.
DB == [files |-> files, folders |-> folders, trash |-> trash,
       blobs |-> blobs, used |-> used_storage]

SetDB(db) ==
    /\ files' = db.files
    /\ folders' = db.folders
    /\ trash' = db.trash
    /\ blobs' = db.blobs
    /\ used_storage' = db.used

\* ------------------------------------------------------------- helpers
RECURSIVE SumSizes(_, _)
SumSizes(fs, S) ==
    IF S = {} THEN 0
    ELSE LET f == CHOOSE x \in S : TRUE
         IN fs[f].size + SumSizes(fs, S \ {f})

\* Sum('size') over a set of File rows
TotalSize(fs) == SumSizes(fs, DOMAIN fs)

\* ids of a set in increasing order (rows come back in insertion order)
RECURSIVE SortedSeq(_)
SortedSeq(S) ==
    IF S = {} THEN <<>>
    ELSE LET m == CHOOSE x \in S : \A y \in S : x <= y
         IN <<m>> \o SortedSeq(S \ {m})

Reverse(s) == [i \in 1..Len(s) |-> s[Len(s) + 1 - i]]

\* JsonResponse: success, the error raised or reported, the count reported
Response(success, error, count) ==
    [success |-> success, error |-> error, count |-> count]

\* a worker with no request: pc is the statement it is about to execute,
\* file and size the File object it holds, used the used_storage of the
\* UserProfile object it holds
IdleReq == [pc |-> "idle", file |-> NoFile, size |-> 0, used |-> 0]

\* ----------------------------------------------------------- StoragePlan
\* Sizes of the StoragePlan table are counted in KB (the plans of the
\* repository are whole numbers of MB and GB).
KB == 1
MB == 1024 * KB
GB == 1024 * MB

PlanRow(plan_type, max_storage_size, max_file_size) ==
    [plan_type |-> plan_type, max_storage_size |-> max_storage_size,
     max_file_size |-> max_file_size]

\* StoragePlan.max_file_size: default=100 * 1024 * 1024
DefaultMaxFileSize == 100 * MB

\* plans_data of the create_default_plans command
plans_data ==
    <<PlanRow("free", 5 * GB, 100 * MB),
      PlanRow("basic", 50 * GB, 2 * GB),
      PlanRow("pro", 200 * GB, 5 * GB)>>

\* the table after migration 0008 has run the command
DefaultPlans == plans_data

\* StoragePlan.objects.get_or_create(plan_type=..., defaults=...): the table
\* after it, or "MultipleObjectsReturned" when several rows have the type
OfType(tbl, plan_type) == {i \in DOMAIN tbl : tbl[i].plan_type = plan_type}

get_or_create(tbl, row) ==
    IF Cardinality(OfType(tbl, row.plan_type)) > 1
    THEN "MultipleObjectsReturned"
    ELSE IF OfType(tbl, row.plan_type) # {} THEN tbl
    ELSE Append(tbl, row)

\* for plan_data in plans_data: get_or_create; an exception ends the command
\* with the rows created so far
RECURSIVE CreateDefaultPlans(_, _)
CreateDefaultPlans(tbl, rows) ==
    IF rows = <<>> THEN tbl
    ELSE LET r == get_or_create(tbl, Head(rows))
         IN IF r = "MultipleObjectsReturned" THEN tbl
            ELSE CreateDefaultPlans(r, Tail(rows))

PlanFrame ==
    UNCHANGED <<files, folders, trash, blobs, used_storage, plan, now,
                nextFile, nextFolder, req, links, sessions>>

create_default_plans ==
    /\ plans' = CreateDefaultPlans(plans, plans_data)
    /\ Len(plans') <= MaxPlans
    /\ resp' = Response(TRUE, "", 0)
    /\ PlanFrame

\* The post_save signal of User: the free plan is created without a
\* max_file_size, which takes the default of the field.
create_user_profile ==
    /\ LET r == get_or_create(plans,
                   PlanRow("free", 5 * GB, DefaultMaxFileSize))
       IN IF r = "MultipleObjectsReturned"
          THEN plans' = plans /\ resp' = Response(FALSE, r, 0)
          ELSE plans' = r /\ resp' = Response(TRUE, "", 0)
    /\ Len(plans') <= MaxPlans
    /\ PlanFrame

\* Text of the size fields of StoragePlanForm: <<>> (empty) or a number and
\* a unit.  clean_max_storage_size_input / clean_max_file_size_input: the
\* size in KB, or Invalid when the text is empty or the unit is unknown.
Invalid == -1
Units == [KB |-> KB, MB |-> MB, GB |-> GB]

ParseSize(text) ==
    IF text = <<>> THEN Invalid
    ELSE IF text[2] \notin DOMAIN Units THEN Invalid
    ELSE text[1] * Units[text[2]]

SizeInputs ==
    {<<>>} \cup {<<n, u>> : n \in 1..MaxPlanInput, u \in {"KB", "GB", "PB"}}

\* form.is_valid(): both size fields parse.  The two sizes are not compared.
StoragePlanFormValid(storage_input, file_input) ==
    ParseSize(storage_input) # Invalid /\ ParseSize(file_input) # Invalid

admin_plan_create(plan_type, storage_input, file_input) ==
    /\ Len(plans) < MaxPlans
    /\ IF StoragePlanFormValid(storage_input, file_input)
       THEN /\ plans' = Append(plans, PlanRow(plan_type,
                              ParseSize(storage_input), ParseSize(file_input)))
            /\ resp' = Response(TRUE, "", 0)
       ELSE plans' = plans /\ resp' = Response(FALSE, "ValidationError", 0)
    /\ PlanFrame

admin_plan_edit(plan_id, storage_input, file_input) ==
    /\ IF plan_id \notin DOMAIN plans
       THEN plans' = plans /\ resp' = Response(FALSE, "Http404", 0)
       ELSE IF StoragePlanFormValid(storage_input, file_input)
       THEN /\ plans' = [plans EXCEPT
                           ![plan_id].max_storage_size = ParseSize(storage_input),
                           ![plan_id].max_file_size = ParseSize(file_input)]
            /\ resp' = Response(TRUE, "", 0)
       ELSE plans' = plans /\ resp' = Response(FALSE, "ValidationError", 0)
    /\ PlanFrame

\* ---------------------------------------------------------------- Init
Plans == {[max_file_size |-> a, max_storage_size |-> b] :
            a \in {MaxPlanFile}, b \in {MaxPlanStorage}}

Init ==
    /\ files = <<>>
    /\ folders = <<>>
    /\ trash = <<>>
    /\ blobs = {}
    /\ used_storage = 0
    /\ plan \in Plans
    /\ now = 0
    /\ nextFile = 0
    /\ nextFolder = 0
    /\ resp = Response(TRUE, "", 0)
    /\ req = [w \in Workers |-> IdleReq]
    /\ links = <<>>
    /\ sessions = [s \in Sessions |-> {}]
    /\ plans = DefaultPlans

\* ------------------------------------------------------------ upload_file
\* CHECK 1 and CHECK 2 of upload_file
FileTooLargeAtLimit(p, size) == size >= p.max_file_size
FileTooLarge(p, size) == size > p.max_file_size
StorageLimitExceeded(p, used, size) == used + size > p.max_storage_size

NewFile(size) == [size |-> size, folder |-> NoFolder, is_deleted |-> FALSE]

\* id: the primary key the new File row gets
UploadFile(db, p, size, id) ==
    IF FileTooLarge(p, size)
    THEN [db |-> db, resp |-> Response(FALSE, "FileTooLarge", 0)]
    ELSE IF StorageLimitExceeded(p, db.used, size)
    THEN [db |-> db, resp |-> Response(FALSE, "StorageLimitExceeded", 0)]
    ELSE [db |-> [db EXCEPT !.files = db.files @@ (id :> NewFile(size)),
                            !.blobs = db.blobs \cup {id},
                            !.used = db.used + size],
          resp |-> Response(TRUE, "", 0)]

upload_file(size) ==
    LET r == UploadFile(DB, plan, size, nextFile + 1)
    IN /\ r.resp.success => nextFile < MaxFiles
       /\ SetDB(r.db)
       /\ resp' = r.resp
       /\ nextFile' = IF r.resp.success THEN nextFile + 1 ELSE nextFile
       /\ UNCHANGED <<plan, plans, links, sessions, now, nextFolder, req>>

\* ------------------------------------------------------------- row level
TrashRowDueAtOnce(file, folder, original_folder, t) ==
    [file |-> file, folder |-> folder, original_folder |-> original_folder,
     scheduled_permanent_deletion |-> t]
TrashRow(file, folder, original_folder, t) ==
    [file |-> file, folder |-> folder, original_folder |-> original_folder,
     scheduled_permanent_deletion |-> t + TrashDays]

\* Trash.objects.filter(file=f) / filter(folder=F)
TrashOfFile(tr, f) == {i \in 1..Len(tr) : tr[i].file = f}
TrashOfFolder(tr, F) == {i \in 1..Len(tr) : tr[i].folder = F}

Restrict(fn, S) == [x \in S |-> fn[x]]

\* File.delete(): the row goes, and with it the Trash rows that point at it
\* (Trash.file is on_delete=CASCADE).  The blob is not touched.
DeleteFileRow(db, f) ==
    [db EXCEPT !.files = Restrict(db.files, DOMAIN db.files \ {f}),
               !.trash = SelectSeq(db.trash, LAMBDA r : r.file # f)]

\* Folder.delete(): File.folder and Trash.folder cascade, Folder.parent_folder
\* and Trash.original_folder are set to null.
FilesIn(fs, F) == {f \in DOMAIN fs : fs[f].folder = F}
SubfoldersOf(fo, F) == {g \in DOMAIN fo : fo[g].parent_folder = F}

DeleteFolderRow(db, F) ==
    LET gone == FilesIn(db.files, F)
        kept == SelectSeq(db.trash,
                    LAMBDA r : r.folder # F /\ r.file \notin gone)
    IN [db EXCEPT
          !.files = Restrict(db.files, DOMAIN db.files \ gone),
          !.folders = [g \in DOMAIN db.folders \ {F} |->
                         IF db.folders[g].parent_folder = F
                         THEN [db.folders[g] EXCEPT !.parent_folder = NoFolder]
                         ELSE db.folders[g]],
          !.trash = [i \in 1..Len(kept) |->
                         IF kept[i].original_folder = F
                         THEN [kept[i] EXCEPT !.original_folder = NoFolder]
                         ELSE kept[i]]]

\* FieldFile.delete(save=False): the blob goes; deleting a missing key is
\* not an error
DeleteBlob(db, f) == [db EXCEPT !.blobs = db.blobs \ {f}]

Result(db, r) == [db |-> db, resp |-> r]

Frame == UNCHANGED <<plan, plans, links, sessions, now, nextFile, nextFolder, req>>

\* -------------------------------------------------------------- dashboard
dashboard ==
    /\ used_storage' =
          TotalSize(Restrict(files, {f \in DOMAIN files : ~files[f].is_deleted}))
    /\ resp' = Response(TRUE, "", 0)
    /\ UNCHANGED <<files, folders, trash, blobs>>
    /\ Frame

\* ---------------------------------------------------------- create_folder
\* FolderCreateForm has the single field name: parent_folder stays null.
\* form.is_valid() runs validate_unique() without the fields that are not
\* in the form, so the unique_together of (name, owner, parent_folder) is
\* not looked at, and the UNIQUE index of the table does not compare rows
\* whose parent_folder is NULL: folder.save() inserts the row.
NewFolderUnderFirst(name) ==
    [parent_folder |-> 1, is_deleted |-> FALSE, name |-> name]
NewFolder(name) ==
    [parent_folder |-> NoFolder, is_deleted |-> FALSE, name |-> name]

create_folder_in_newest(name) ==
    /\ nextFolder < MaxFolders
    /\ folders' = folders @@ ((nextFolder + 1) :>
                     [NewFolder(name) EXCEPT !.parent_folder = nextFolder])
    /\ nextFolder' = nextFolder + 1
    /\ resp' = Response(TRUE, "", 0)
    /\ UNCHANGED <<files, trash, blobs, used_storage, plan, plans, links, sessions,
                   now, nextFile, req>>
create_folder(name) ==
    /\ nextFolder < MaxFolders
    /\ folders' = folders @@ ((nextFolder + 1) :> NewFolder(name))
    /\ nextFolder' = nextFolder + 1
    /\ resp' = Response(TRUE, "", 0)
    /\ UNCHANGED <<files, trash, blobs, used_storage, plan, plans, links, sessions,
                   now, nextFile, req>>

\* -------------------------------------------------------------- move_file
MoveFile(db, f, target) ==
    IF f \notin DOMAIN db.files
    THEN Result(db, Response(FALSE, "Http404", 0))
    ELSE IF target # NoFolder /\ target \notin DOMAIN db.folders
    THEN Result(db, Response(FALSE, "Http404", 0))
    ELSE Result([db EXCEPT !.files[f].folder = target],
                Response(TRUE, "", 0))

move_file(f, target) ==
    LET r == MoveFile(DB, f, target)
    IN SetDB(r.db) /\ resp' = r.resp /\ Frame

\* ---------------------------------------------------------- delete_folder
DeleteFolder(db, F) ==
    IF F \notin DOMAIN db.folders
    THEN Result(db, Response(FALSE, "Http404", 0))
    ELSE IF FilesIn(db.files, F) # {} \/ SubfoldersOf(db.folders, F) # {}
    THEN Result(db, Response(FALSE, "NotEmpty", 0))
    ELSE Result(DeleteFolderRow(db, F),
                Response(TRUE, "", 0))

delete_folder(F) ==
    LET r == DeleteFolder(DB, F)
    IN SetDB(r.db) /\ resp' = r.resp /\ Frame

\* ---------------------------------------------------------- move_to_trash
\* The file is looked up by id and owner only: a file already in trash is
\* accepted again.
MoveToTrash(db, f, t) ==
    IF f \notin DOMAIN db.files
    THEN Result(db, Response(FALSE, "Http404", 0))
    ELSE Result([db EXCEPT
                   !.trash = Append(db.trash,
                       TrashRow(f, NoFolder, db.files[f].folder, t)),
                   !.files[f].is_deleted = TRUE],
                Response(TRUE, "", 0))

move_to_trash(f) ==
    LET r == MoveToTrash(DB, f, now)
    IN Len(r.db.trash) <= MaxTrash /\ SetDB(r.db) /\ resp' = r.resp /\ Frame

\* get_object_or_404(Trash, file=f, user=...): "" when exactly one row
\* matches, else the exception raised
LookupError(rows) ==
    IF Cardinality(rows) = 0 THEN "Http404"
    ELSE IF Cardinality(rows) > 1 THEN "MultipleObjectsReturned"
    ELSE ""

\* get_object_or_404(File, id=f, owner=..., is_deleted=True) followed by the
\* lookup of its Trash row
TrashedFileError(db, f) ==
    IF f \notin DOMAIN db.files \/ ~db.files[f].is_deleted THEN "Http404"
    ELSE LookupError(TrashOfFile(db.trash, f))

RemoveAt(s, i) == [j \in 1..(Len(s) - 1) |-> IF j < i THEN s[j] ELSE s[j + 1]]

\* ----------------------------------------------------------- restore_file
RestoreFile(db, f) ==
    LET err == TrashedFileError(db, f)
    IN IF err # ""
       THEN Result(db, Response(FALSE, err, 0))
       ELSE LET i == CHOOSE j \in TrashOfFile(db.trash, f) : TRUE
            IN Result([db EXCEPT !.files[f].is_deleted = FALSE,
                                 !.trash = RemoveAt(db.trash, i)],
                      Response(TRUE, "", 0))

restore_file(f) ==
    LET r == RestoreFile(DB, f)
    IN SetDB(r.db) /\ resp' = r.resp /\ Frame

\* -------------------------------------------------- permanent_delete_file
\* storageFails: the blob delete raises
PermanentDeleteFileRowsFirst(db, f, storageFails) ==
    LET err == TrashedFileError(db, f)
    IN IF err # ""
       THEN Result(db, Response(FALSE, err, 0))
       ELSE LET i == CHOOSE j \in TrashOfFile(db.trash, f) : TRUE
                db1 == [db EXCEPT !.used = db.used - db.files[f].size]
                db2 == [db1 EXCEPT !.trash = RemoveAt(db1.trash, i)]
                db3 == DeleteFileRow(db2, f)
                db4 == DeleteBlob(db3, f)
            IN IF storageFails
               THEN Result(db3, Response(FALSE,
                                         "StorageError", 0))
               ELSE Result(db4, Response(TRUE,
                                         "", 0))
PermanentDeleteFile(db, f, storageFails) ==
    LET err == TrashedFileError(db, f)
    IN IF err # ""
       THEN Result(db, Response(FALSE, err, 0))
       ELSE LET i == CHOOSE j \in TrashOfFile(db.trash, f) : TRUE
                db1 == [db EXCEPT !.used = db.used - db.files[f].size]
                db2 == DeleteBlob(db1, f)
                db3 == [db2 EXCEPT !.trash = RemoveAt(db2.trash, i)]
                db4 == DeleteFileRow(db3, f)
            IN IF storageFails
               THEN Result(db1, Response(FALSE,
                                         "StorageError", 0))
               ELSE Result(db4, Response(TRUE,
                                         "", 0))

permanent_delete_file(f, storageFails) ==
    LET r == PermanentDeleteFile(DB, f, storageFails)
    IN /\ storageFails => r.db.used >= -MaxOverdraw
       /\ SetDB(r.db) /\ resp' = r.resp /\ Frame

\* ------------------------------------------------------------ empty_trash
\* The loop over Trash.objects.filter(user=...), newest row first (Meta
\* ordering -deleted_at).  items: the rows not yet visited, each tagged with
\* the id it had when the queryset was read.  failAt: the number of the blob
\* delete that raises (0: none does), k: blob deletes made so far.
Tagged(tr) == [i \in 1..Len(tr) |-> [id |-> i, row |-> tr[i]]]
Untagged(tt) == [i \in 1..Len(tt) |-> tt[i].row]
DropRow(tt, id) == SelectSeq(tt, LAMBDA x : x.id # id)
DropFile(tt, f) == SelectSeq(tt, LAMBDA x : x.row.file # f)

RECURSIVE EmptyTrashLoop(_, _, _, _, _)
EmptyTrashLoop(db, items, count, failAt, k) ==
    IF items = <<>>
    THEN Result(db, Response(TRUE, "", count))
    ELSE LET item == Head(items)
             f == item.row.file
         IN IF f = NoFile
            THEN Result(db, Response(FALSE, "AttributeError", 0))
            ELSE IF f \notin DOMAIN db.files
            THEN Result(db, Response(FALSE, "DoesNotExist", 0))
            ELSE IF failAt = k + 1
            THEN Result(db, Response(FALSE, "StorageError", 0))
            ELSE LET db1 == DeleteBlob(db, f)
                     db2 == [db1 EXCEPT !.trash = DropRow(db1.trash, item.id)]
                     db3 == [db2 EXCEPT
                               !.files = Restrict(db2.files, DOMAIN db2.files \ {f}),
                               !.trash = DropFile(db2.trash, f)]
                 IN EmptyTrashLoop(db3, Tail(items), count + 1, failAt, k + 1)

EmptyTrash(db, failAt) ==
    LET tt == Tagged(db.trash)
        r == EmptyTrashLoop([db EXCEPT !.trash = tt], Reverse(tt), 0, failAt, 0)
    IN Result([r.db EXCEPT !.trash = Untagged(r.db.trash)], r.resp)

empty_trash(failAt) ==
    LET r == EmptyTrash(DB, failAt)
    IN SetDB(r.db) /\ resp' = r.resp /\ Frame

\* ------------------------------------------------------ restore_all_files
RECURSIVE RestoreAllLoop(_, _, _)
RestoreAllLoop(db, items, count) ==
    IF items = <<>>
    THEN Result(db, Response(TRUE, "", count))
    ELSE LET item == Head(items)
             f == item.row.file
         IN IF f = NoFile
            THEN RestoreAllLoop(db, Tail(items), count)
            ELSE RestoreAllLoop(
                    [db EXCEPT !.files[f].is_deleted = FALSE,
                               !.trash = DropRow(db.trash, item.id)],
                    Tail(items), count + 1)

RestoreAllFiles(db) ==
    LET tt == Tagged(db.trash)
        r == RestoreAllLoop([db EXCEPT !.trash = tt], Reverse(tt), 0)
    IN Result([r.db EXCEPT !.trash = Untagged(r.db.trash)], r.resp)

restore_all_files ==
    LET r == RestoreAllFiles(DB)
    IN SetDB(r.db) /\ resp' = r.resp /\ Frame

\* --------------------------------------------------- move_folder_to_trash
\* for file_obj in File.objects.filter(folder=F, is_deleted=False): flag the
\* file and create its Trash row
RECURSIVE TrashFilesLoop(_, _, _, _)
TrashFilesLoop(db, fseq, F, t) ==
    IF fseq = <<>> THEN db
    ELSE LET f == Head(fseq)
         IN TrashFilesLoop(
               [db EXCEPT !.files[f].is_deleted = TRUE,
                          !.trash = Append(db.trash, TrashRow(f, NoFolder, F, t))],
               Tail(fseq), F, t)

AllFilesIn(db, F) == SortedSeq(FilesIn(db.files, F))
ActiveFilesIn(db, F) ==
    SortedSeq({f \in FilesIn(db.files, F) : ~db.files[f].is_deleted})
ActiveSubfolders(db, F) ==
    SortedSeq({g \in SubfoldersOf(db.folders, F) : ~db.folders[g].is_deleted})

\* delete_subfolders_recursive(parent_folder); gseq: the subfolders of
\* parent not yet visited
RECURSIVE delete_subfolders_recursive(_, _, _, _)
delete_subfolders_recursive(db, gseq, parent, t) ==
    IF gseq = <<>> THEN db
    ELSE LET g == Head(gseq)
             db1 == [db EXCEPT
                       !.folders[g].is_deleted = TRUE,
                       !.trash = Append(db.trash, TrashRow(NoFile, g, parent, t))]
             db2 == TrashFilesLoop(db1, ActiveFilesIn(db1, g), g, t)
             db3 == delete_subfolders_recursive(db2, ActiveSubfolders(db2, g), g, t)
         IN delete_subfolders_recursive(db3, Tail(gseq), parent, t)

MoveFolderToTrash(db, F, t) ==
    IF F \notin DOMAIN db.folders \/ db.folders[F].is_deleted
    THEN Result(db, Response(FALSE, "Http404", 0))
    ELSE LET db1 == [db EXCEPT
                       !.trash = Append(db.trash,
                           TrashRow(NoFile, F, db.folders[F].parent_folder, t)),
                       !.folders[F].is_deleted = TRUE]
             db2 == TrashFilesLoop(db1, ActiveFilesIn(db1, F), F, t)
             db3 == delete_subfolders_recursive(db2, ActiveSubfolders(db2, F), F, t)
         IN Result(db3, Response(TRUE, "", 0))

move_folder_to_trash(F) ==
    LET r == MoveFolderToTrash(DB, F, now)
    IN SetDB(r.db) /\ resp' = r.resp /\ Frame

\* --------------------------------------------------------- restore_folder
\* get_object_or_404(Folder, is_deleted=True) and the lookup of its Trash row
TrashedFolderError(db, F) ==
    IF F \notin DOMAIN db.folders \/ ~db.folders[F].is_deleted THEN "Http404"
    ELSE LookupError(TrashOfFolder(db.trash, F))

\* for file_obj in File.objects.filter(folder=F, is_deleted=True): clear the
\* flag and delete every Trash row of the file
RECURSIVE RestoreFilesLoop(_, _)
RestoreFilesLoop(db, fseq) ==
    IF fseq = <<>> THEN db
    ELSE LET f == Head(fseq)
         IN RestoreFilesLoop(
               [db EXCEPT !.files[f].is_deleted = FALSE,
                          !.trash = SelectSeq(db.trash, LAMBDA r : r.file # f)],
               Tail(fseq))

DeletedFilesIn(db, F) ==
    SortedSeq({f \in FilesIn(db.files, F) : db.files[f].is_deleted})
DeletedSubfolders(db, F) ==
    SortedSeq({g \in SubfoldersOf(db.folders, F) : db.folders[g].is_deleted})

RECURSIVE restore_subfolders_recursive(_, _)
restore_subfolders_recursive(db, gseq) ==
    IF gseq = <<>> THEN db
    ELSE LET g == Head(gseq)
             db1 == [db EXCEPT
                       !.folders[g].is_deleted = FALSE,
                       !.trash = SelectSeq(db.trash, LAMBDA r : r.folder # g)]
             db2 == RestoreFilesLoop(db1, DeletedFilesIn(db1, g))
             db3 == restore_subfolders_recursive(db2, DeletedSubfolders(db2, g))
         IN restore_subfolders_recursive(db3, Tail(gseq))

RestoreFolder(db, F) ==
    LET err == TrashedFolderError(db, F)
    IN IF err # ""
       THEN Result(db, Response(FALSE, err, 0))
       ELSE LET db1 == [db EXCEPT !.folders[F].is_deleted = FALSE]
                db2 == RestoreFilesLoop(db1, DeletedFilesIn(db1, F))
                db3 == restore_subfolders_recursive(db2, DeletedSubfolders(db2, F))
                db4 == [db3 EXCEPT
                          !.trash = SelectSeq(db3.trash, LAMBDA r : r.folder # F)]
            IN Result(db4, Response(TRUE, "", 0))

restore_folder(F) ==
    LET r == RestoreFolder(DB, F)
    IN SetDB(r.db) /\ resp' = r.resp /\ Frame

\* ------------------------------------------------ permanent_delete_folder
\* for file in folder.files.all(): blob delete, then row delete.  failAt:
\* the number of the blob delete that raises (0: none does)
RECURSIVE PurgeFilesLoop(_, _, _, _)
PurgeFilesLoop(db, fseq, failAt, k) ==
    IF fseq = <<>> THEN [db |-> db, failed |-> FALSE]
    ELSE IF failAt = k + 1 THEN [db |-> db, failed |-> TRUE]
    ELSE PurgeFilesLoop(DeleteFileRow(DeleteBlob(db, Head(fseq)), Head(fseq)),
                        Tail(fseq), failAt, k + 1)

\* for subfolder in folder.subfolders.all(): subfolder.delete()
RECURSIVE DeleteSubfoldersLoop(_, _)
DeleteSubfoldersLoop(db, gseq) ==
    IF gseq = <<>> THEN db
    ELSE DeleteSubfoldersLoop(DeleteFolderRow(db, Head(gseq)), Tail(gseq))

PermanentDeleteFolder(db, F, failAt) ==
    LET err == TrashedFolderError(db, F)
    IN IF err # ""
       THEN Result(db, Response(FALSE, err, 0))
       ELSE LET p == PurgeFilesLoop(db, SortedSeq(FilesIn(db.files, F)), failAt, 0)
                db2 == DeleteSubfoldersLoop(p.db,
                           SortedSeq(SubfoldersOf(p.db.folders, F)))
                db3 == [db2 EXCEPT
                          !.trash = SelectSeq(db2.trash, LAMBDA r : r.folder # F)]
                db4 == DeleteFolderRow(db3, F)
            IN IF p.failed
               THEN Result(p.db, Response(FALSE, "StorageError", 0))
               ELSE Result(db4, Response(TRUE, "", 0))

permanent_delete_folder(F, failAt) ==
    LET r == PermanentDeleteFolder(DB, F, failAt)
    IN SetDB(r.db) /\ resp' = r.resp /\ Frame

\* the clock advances by a day
Tick ==
    /\ now < MaxTime
    /\ now' = now + 1
    /\ UNCHANGED <<files, folders, trash, blobs, used_storage, plan, plans, links, sessions,
                   nextFile, nextFolder, resp, req>>

\* File uploads, trash, restore and purge, no storage failure
NextMutations ==
    \/ \E size \in Sizes : upload_file(size)
    \/ \E f \in FileIds : move_to_trash(f)
    \/ \E f \in FileIds : restore_file(f)
    \/ \E f \in FileIds : permanent_delete_file(f, FALSE)
    \/ empty_trash(0)
    \/ restore_all_files

SpecMutations == Init /\ [][NextMutations]_vars

\* The same with the dashboard view
Next ==
    \/ NextMutations
    \/ dashboard

Spec == Init /\ [][Next]_vars

\* The trash schedule: upload, trash and restore of files while time passes
NextClock ==
    \/ \E size \in Sizes : upload_file(size)
    \/ \E f \in FileIds : move_to_trash(f)
    \/ \E f \in FileIds : restore_file(f)
    \/ Tick

SpecClock == Init /\ [][NextClock]_vars

\* Every view of the file and folder rows, from the empty database
NextViews ==
    \/ Next
    \/ \E f \in FileIds : permanent_delete_file(f, TRUE)
    \/ \E failAt \in 1..MaxFiles : empty_trash(failAt)
    \/ \E name \in Names : create_folder(name)
    \/ \E f \in FileIds, target \in FolderIds \cup {NoFolder} : move_file(f, target)
    \/ \E F \in FolderIds : delete_folder(F)
    \/ \E F \in FolderIds : move_folder_to_trash(F)
    \/ \E F \in FolderIds : restore_folder(F)
    \/ \E F \in FolderIds, failAt \in 0..MaxFiles :
          permanent_delete_folder(F, failAt)

SpecViews == Init /\ [][NextViews]_vars

\* Folder trees.  Folder.parent_folder is a nullable self-reference and the
\* trash, restore and purge handlers recurse over it; create_folder never
\* sets it, so trees of depth two and more are taken from the rows the schema
\* admits: every folder's parent is null or an older folder (no cycle), every
\* file lies in the root or in one of the folders, nothing is in trash and
\* used_storage is the sum of the file sizes.
Forests ==
    {fo \in [FolderIds -> [parent_folder : FolderIds \cup {NoFolder},
                            is_deleted : {FALSE}, name : Names]] :
        \A g \in FolderIds : fo[g].parent_folder < g /\ fo[g].name = g}

Placements ==
    [TreeFileIds -> [size : {1}, folder : FolderIds \cup {NoFolder},
                 is_deleted : {FALSE}]]

InitTree ==
    /\ folders \in Forests
    /\ files \in Placements
    /\ trash = <<>>
    /\ blobs = TreeFileIds
    /\ used_storage = TotalSize(files)
    /\ plan \in Plans
    /\ now = 0
    /\ nextFile = TreeFiles
    /\ nextFolder = MaxFolders
    /\ resp = Response(TRUE, "", 0)
    /\ req = [w \in Workers |-> IdleReq]
    /\ links = <<>>
    /\ sessions = [s \in Sessions |-> {}]
    /\ plans = DefaultPlans

NextTree ==
    \/ \E f \in TreeFileIds : move_to_trash(f)
    \/ \E f \in TreeFileIds : restore_file(f)
    \/ \E F \in FolderIds : move_folder_to_trash(F)
    \/ \E F \in FolderIds : restore_folder(F)
    \/ \E F \in FolderIds : permanent_delete_folder(F, 0)
    \/ empty_trash(0)

SpecTree == InitTree /\ [][NextTree]_vars

\* ------------------------------------------------- requests in parallel
\* Each request runs in its own worker and every ORM call is a statement of
\* its own (no transaction.atomic, no select_for_update, ATOMIC_REQUESTS is
\* off): the handlers below are upload_file and permanent_delete_file cut at
\* their database and storage calls.
AllIdle == \A w \in Workers : req[w].pc = "idle"
Uploading == {w \in Workers : req[w].pc \in {"save_file", "save_profile"}}

\* upload_file up to the two checks: the profile is read, the checks are
\* made on the copy read
UploadBegin(w, size) ==
    /\ req[w].pc = "idle"
    /\ nextFile + Cardinality(Uploading) < MaxFiles
    /\ IF FileTooLarge(plan, size)
       THEN resp' = Response(FALSE, "FileTooLarge", 0) /\ UNCHANGED req
       ELSE IF StorageLimitExceeded(plan, used_storage, size)
       THEN resp' = Response(FALSE, "StorageLimitExceeded", 0) /\ UNCHANGED req
       ELSE /\ req' = [req EXCEPT ![w] = [pc |-> "save_file", file |-> NoFile,
                                          size |-> size, used |-> used_storage]]
            /\ UNCHANGED resp
    /\ UNCHANGED <<files, folders, trash, blobs, used_storage, plan, plans, links, sessions, now,
                   nextFile, nextFolder>>

\* file_obj.save()
UploadSaveFile(w) ==
    /\ req[w].pc = "save_file"
    /\ files' = files @@ ((nextFile + 1) :> NewFile(req[w].size))
    /\ blobs' = blobs \cup {nextFile + 1}
    /\ nextFile' = nextFile + 1
    /\ req' = [req EXCEPT ![w].pc = "save_profile", ![w].file = nextFile + 1]
    /\ UNCHANGED <<folders, trash, used_storage, plan, plans, links, sessions, now, nextFolder, resp>>

\* user_profile.used_storage += file_obj.size; user_profile.save()
UploadSaveProfile(w) ==
    /\ req[w].pc = "save_profile"
    /\ used_storage' = req[w].used + req[w].size
    /\ resp' = Response(TRUE, "", 0)
    /\ req' = [req EXCEPT ![w] = IdleReq]
    /\ UNCHANGED <<files, folders, trash, blobs, plan, plans, links, sessions, now, nextFile, nextFolder>>

NextUploads ==
    \/ \E w \in Workers, size \in Sizes : UploadBegin(w, size)
    \/ \E w \in Workers : UploadSaveFile(w)
    \/ \E w \in Workers : UploadSaveProfile(w)

SpecUploads == Init /\ [][NextUploads]_vars

\* permanent_delete_file: the two lookups
PurgeBegin(w, f) ==
    /\ req[w].pc = "idle"
    /\ LET err == TrashedFileError(DB, f)
       IN IF err # ""
          THEN resp' = Response(FALSE, err, 0) /\ UNCHANGED req
          ELSE /\ req' = [req EXCEPT ![w] = [pc |-> "read_profile", file |-> f,
                                             size |-> files[f].size, used |-> 0]]
               /\ UNCHANGED resp
    /\ UNCHANGED <<files, folders, trash, blobs, used_storage, plan, plans, links, sessions, now,
                   nextFile, nextFolder>>

\* user_profile = UserProfile.objects.get(user=request.user)
PurgeReadProfile(w) ==
    /\ req[w].pc = "read_profile"
    /\ req' = [req EXCEPT ![w].pc = "write_profile", ![w].used = used_storage]
    /\ UNCHANGED <<files, folders, trash, blobs, used_storage, plan, plans, links, sessions, now,
                   nextFile, nextFolder, resp>>

\* user_profile.used_storage -= file_obj.size; user_profile.save()
PurgeSaveProfile(w) ==
    /\ req[w].pc = "write_profile"
    /\ used_storage' = req[w].used - req[w].size
    /\ req' = [req EXCEPT ![w].pc = "delete_blob"]
    /\ UNCHANGED <<files, folders, trash, blobs, plan, plans, links, sessions, now, nextFile,
                   nextFolder, resp>>

\* file_obj.file.delete(save=False)
PurgeDeleteBlob(w) ==
    /\ req[w].pc = "delete_blob"
    /\ blobs' = blobs \ {req[w].file}
    /\ req' = [req EXCEPT ![w].pc = "delete_trash"]
    /\ UNCHANGED <<files, folders, trash, used_storage, plan, plans, links, sessions, now, nextFile,
                   nextFolder, resp>>

\* trash_item.delete(): a DELETE by primary key, no error when the row is
\* gone.  No Trash row is created while purges run, so the row looked up is
\* the only row of the file.
PurgeDeleteTrash(w) ==
    /\ req[w].pc = "delete_trash"
    /\ trash' = SelectSeq(trash, LAMBDA r : r.file # req[w].file)
    /\ req' = [req EXCEPT ![w].pc = "delete_file"]
    /\ UNCHANGED <<files, folders, blobs, used_storage, plan, plans, links, sessions, now, nextFile,
                   nextFolder, resp>>

\* file_obj.delete(): a DELETE by primary key with its cascade
PurgeDeleteFile(w) ==
    /\ req[w].pc = "delete_file"
    /\ LET db == DeleteFileRow(DB, req[w].file)
       IN files' = db.files /\ trash' = db.trash
    /\ resp' = Response(TRUE, "", 0)
    /\ req' = [req EXCEPT ![w] = IdleReq]
    /\ UNCHANGED <<folders, blobs, used_storage, plan, plans, links, sessions, now, nextFile, nextFolder>>

\* every file uploaded and moved to trash, as upload_file and move_to_trash
\* leave them
InitPurges ==
    /\ plan \in Plans
    /\ files \in {fs \in [FileIds -> [size : 1..plan.max_file_size,
                                      folder : {NoFolder},
                                      is_deleted : {TRUE}]] :
                     TotalSize(fs) <= plan.max_storage_size}
    /\ trash = [f \in FileIds |-> TrashRow(f, NoFolder, NoFolder, 0)]
    /\ blobs = FileIds
    /\ used_storage = TotalSize(files)
    /\ folders = <<>>
    /\ now = 0
    /\ nextFile = MaxFiles
    /\ nextFolder = 0
    /\ resp = Response(TRUE, "", 0)
    /\ req = [w \in Workers |-> IdleReq]
    /\ links = <<>>
    /\ sessions = [s \in Sessions |-> {}]
    /\ plans = DefaultPlans

NextPurges ==
    \/ \E w \in Workers, f \in FileIds : PurgeBegin(w, f)
    \/ \E w \in Workers : PurgeReadProfile(w)
    \/ \E w \in Workers : PurgeSaveProfile(w)
    \/ \E w \in Workers : PurgeDeleteBlob(w)
    \/ \E w \in Workers : PurgeDeleteTrash(w)
    \/ \E w \in Workers : PurgeDeleteFile(w)

SpecPurges == InitPurges /\ [][NextPurges]_vars

\* ------------------------------------------------------------ share links
\* ShareLink rows: token -> [file, folder, expires_at, is_active,
\* require_password, password_hash].  Tokens are uuid4 values, one per row.
\* Text of request.POST is a tuple of characters.
Passwords == {<<>>, <<"a">>, <<" ", "a">>}

RECURSIVE LStrip(_)
LStrip(p) == IF p # <<>> /\ Head(p) = " " THEN LStrip(Tail(p)) ELSE p

\* str.strip()
Strip(p) == Reverse(LStrip(Reverse(LStrip(p))))

\* make_password / check_password of django.contrib.auth.hashers
NoHash == [algorithm |-> "", password |-> <<>>]
make_password(p) == [algorithm |-> "pbkdf2_sha256", password |-> p]
check_any_password(l, p) == l.password_hash # NoHash
check_password(l, p) ==
    IF l.password_hash = NoHash THEN FALSE
    ELSE make_password(p) = l.password_hash

has_password(l) == l.require_password /\ l.password_hash # NoHash

\* expires_at < timezone.now(), for a link that has an expires_at
ExpiredAfterADay(l, t) == l.expires_at # Never /\ l.expires_at + 1 < t
Expired(l, t) == l.expires_at # Never /\ l.expires_at < t

\* ShareLink.objects.create(...), the expires_in and password fields of the
\* request and the save
NewShareLink(file, folder, t, expires_in, enable_password, password) ==
    LET protect == enable_password /\ Strip(password) # <<>>
    IN [file |-> file, folder |-> folder,
        expires_at |-> IF expires_in = Never THEN Never ELSE t + expires_in,
        is_active |-> TRUE,
        require_password |-> protect,
        password_hash |-> IF protect THEN make_password(Strip(password))
                          ELSE NoHash]

ShareFrame ==
    UNCHANGED <<files, folders, trash, blobs, used_storage, plan, plans, now,
                nextFile, nextFolder, req>>

create_share_link(f, expires_in, enable_password, password) ==
    /\ Cardinality(DOMAIN links) < MaxLinks
    /\ IF f \notin DOMAIN files
       THEN resp' = Response(FALSE, "Http404", 0) /\ UNCHANGED links
       ELSE /\ links' = links @@ ((Cardinality(DOMAIN links) + 1) :>
                           NewShareLink(f, NoFolder, now, expires_in,
                                        enable_password, password))
            /\ resp' = Response(TRUE, "", 0)
    /\ UNCHANGED sessions
    /\ ShareFrame

create_folder_share_link(F, expires_in, enable_password, password) ==
    /\ Cardinality(DOMAIN links) < MaxLinks
    /\ IF F \notin DOMAIN folders
       THEN resp' = Response(FALSE, "Http404", 0) /\ UNCHANGED links
       ELSE /\ links' = links @@ ((Cardinality(DOMAIN links) + 1) :>
                           NewShareLink(NoFile, F, now, expires_in,
                                        enable_password, password))
            /\ resp' = Response(TRUE, "", 0)
    /\ UNCHANGED sessions
    /\ ShareFrame

\* What a share view returns: the template rendered (or the status of the
\* HttpResponse), the File and Folder objects in its context, the files it
\* lists or packs, and the file whose presigned download URL it carries.
Page(template, file, folder, listed, download_url) ==
    [template |-> template, file |-> file, folder |-> folder,
     listed |-> listed, download_url |-> download_url]

ErrorPage(template) == Page(template, NoFile, NoFolder, {}, NoFile)

\* get_all_files_in_folder: the files of the folder that are not deleted and,
\* recursively, those of its subfolders that are not deleted
RECURSIVE get_all_files_in_folder(_, _, _)
RECURSIVE AllFilesOfFolders(_, _, _)
AllFilesOfFolders(fs, fo, gseq) ==
    IF gseq = <<>> THEN {}
    ELSE get_all_files_in_folder(fs, fo, Head(gseq))
            \cup AllFilesOfFolders(fs, fo, Tail(gseq))

get_all_files_in_folder(fs, fo, F) ==
    {f \in FilesIn(fs, F) : ~fs[f].is_deleted}
       \cup AllFilesOfFolders(fs, fo,
               SortedSeq({g \in SubfoldersOf(fo, F) : ~fo[g].is_deleted}))

\* get_object_or_404(ShareLink, token=token, is_active=True)
ActiveLink(token) == token \in DOMAIN links /\ links[token].is_active

ShareFile(session, token) ==
    IF ~ActiveLink(token) THEN ErrorPage("share_error")
    ELSE LET l == links[token]
         IN IF Expired(l, now) THEN ErrorPage("share_expired")
            ELSE IF has_password(l) /\ token \notin session
            THEN Page("share_password", l.file, NoFolder, {}, NoFile)
            ELSE IF l.file = NoFile THEN ErrorPage("share_error")
            ELSE Page("share_file", l.file, NoFolder, {}, l.file)

share_file(s, token) ==
    /\ resp' = ShareFile(sessions[s], token)
    /\ UNCHANGED <<links, sessions>>
    /\ ShareFrame

ShareFolder(session, token) ==
    IF ~ActiveLink(token) \/ links[token].folder = NoFolder
    THEN ErrorPage("share_error")
    ELSE LET l == links[token]
         IN IF Expired(l, now) THEN ErrorPage("share_expired")
            ELSE IF has_password(l) /\ token \notin session
            THEN Page("share_password", NoFile, l.folder, {}, NoFile)
            ELSE Page("share_folder", NoFile, l.folder,
                      get_all_files_in_folder(files, folders, l.folder),
                      NoFile)

share_folder(s, token) ==
    /\ resp' = ShareFolder(sessions[s], token)
    /\ UNCHANGED <<links, sessions>>
    /\ ShareFrame

\* The session is not read: the zip is built for every visitor.
DownloadSharedFolder(token) ==
    IF ~ActiveLink(token) \/ links[token].folder = NoFolder
    THEN ErrorPage("500")
    ELSE LET l == links[token]
             all_files == get_all_files_in_folder(files, folders, l.folder)
         IN IF Expired(l, now) THEN ErrorPage("410")
            ELSE IF all_files = {} THEN ErrorPage("404")
            ELSE Page("zip", NoFile, l.folder, all_files, NoFile)

download_shared_folder(token) ==
    /\ resp' = DownloadSharedFolder(token)
    /\ UNCHANGED <<links, sessions>>
    /\ ShareFrame

\* candidate: request.POST.get('password'), <<>> when missing or empty
VerifySharePassword(session, token, candidate) ==
    IF ~ActiveLink(token)
    THEN [session |-> session, resp |-> Response(FALSE, "Http404", 0)]
    ELSE IF ~has_password(links[token])
    THEN [session |-> session,
          resp |-> Response(FALSE, "This share link is not password protected", 0)]
    ELSE IF candidate = <<>>
    THEN [session |-> session,
          resp |-> Response(FALSE, "Password is required", 0)]
    ELSE IF check_password(links[token], candidate)
    THEN [session |-> session \cup {token}, resp |-> Response(TRUE, "", 0)]
    ELSE [session |-> session, resp |-> Response(FALSE, "Invalid password", 0)]

verify_share_password_any_session(s, token, candidate) ==
    LET r == VerifySharePassword(sessions[s], token, candidate)
    IN /\ sessions' = [x \in Sessions |->
                          IF r.resp.success THEN sessions[x] \cup {token}
                          ELSE sessions[x]]
       /\ resp' = r.resp
       /\ UNCHANGED links
       /\ ShareFrame
verify_share_password(s, token, candidate) ==
    LET r == VerifySharePassword(sessions[s], token, candidate)
    IN /\ sessions' = [sessions EXCEPT ![s] = r.session]
       /\ resp' = r.resp
       /\ UNCHANGED links
       /\ ShareFrame

\* JsonResponse({'verified': ...})
is_share_verified(s, token) ==
    /\ resp' = [verified |-> token \in sessions[s]]
    /\ UNCHANGED <<links, sessions>>
    /\ ShareFrame

\* One file in one folder, as upload_file, create_folder and move_file leave
\* them; links are created, resolved and verified by two visitors while time
\* passes.
InitShare ==
    /\ files = (1 :> [NewFile(1) EXCEPT !.folder = 1])
    /\ folders = (1 :> NewFolder(1))
    /\ trash = <<>>
    /\ blobs = {1}
    /\ used_storage = 1
    /\ plan \in Plans
    /\ now = 0
    /\ nextFile = 1
    /\ nextFolder = 1
    /\ resp = Response(TRUE, "", 0)
    /\ req = [w \in Workers |-> IdleReq]
    /\ links = <<>>
    /\ sessions = [s \in Sessions |-> {}]
    /\ plans = DefaultPlans

ExpiresIn == {Never} \cup (0..MaxTime)

NextShare ==
    \/ \E e \in ExpiresIn, b \in BOOLEAN, p \in Passwords :
          create_share_link(1, e, b, p)
    \/ \E e \in ExpiresIn, b \in BOOLEAN, p \in Passwords :
          create_folder_share_link(1, e, b, p)
    \/ \E s \in Sessions, t \in Tokens : share_file(s, t)
    \/ \E s \in Sessions, t \in Tokens : share_folder(s, t)
    \/ \E t \in Tokens : download_shared_folder(t)
    \/ \E s \in Sessions, t \in Tokens, c \in Passwords :
          verify_share_password(s, t, c)
    \/ \E s \in Sessions, t \in Tokens : is_share_verified(s, t)
    \/ Tick

SpecShare == InitShare /\ [][NextShare]_vars

\* Folder links over folder trees whose items go to trash and come back
NextShareTree ==
    \/ \E f \in TreeFileIds : move_to_trash(f)
    \/ \E f \in TreeFileIds : restore_file(f)
    \/ \E F \in FolderIds : move_folder_to_trash(F)
    \/ \E F \in FolderIds : restore_folder(F)
    \/ \E F \in FolderIds : create_folder_share_link(F, Never, FALSE, <<>>)
    \/ \E s \in Sessions, t \in Tokens : share_folder(s, t)
    \/ \E t \in Tokens : download_shared_folder(t)

SpecShareTree == InitTree /\ [][NextShareTree]_vars

\* The folder views from the empty database, while time passes
NextFolders ==
    \/ \E name \in Names : create_folder(name)
    \/ \E F \in FolderIds : delete_folder(F)
    \/ \E F \in FolderIds : move_folder_to_trash(F)
    \/ \E F \in FolderIds : restore_folder(F)
    \/ \E F \in FolderIds : permanent_delete_folder(F, 0)
    \/ Tick

SpecFolders == Init /\ [][NextFolders]_vars

\* ------------------------------------------------------------- trash_view
\* The trash page: the trashed files and folders of the Trash rows (one
\* entry per row), their count, the size of the files and, per row shown, the
\* days left until scheduled_permanent_deletion (never below 0).  Nothing is
\* written.
FileShown(db, r) == r.file \in DOMAIN db.files /\ db.files[r.file].is_deleted
FolderShown(db, r) ==
    r.folder \in DOMAIN db.folders /\ db.folders[r.folder].is_deleted

RECURSIVE SumRowSizes(_, _)
SumRowSizes(fs, rows) ==
    IF rows = <<>> THEN 0
    ELSE fs[Head(rows).file].size + SumRowSizes(fs, Tail(rows))

TrashView(db, t) ==
    LET fileRows == SelectSeq(db.trash, LAMBDA r : FileShown(db, r))
        folderRows == SelectSeq(db.trash, LAMBDA r : FolderShown(db, r))
        rows == SelectSeq(db.trash,
                    LAMBDA r : FileShown(db, r) \/ FolderShown(db, r))
    IN [files |-> [i \in 1..Len(fileRows) |-> fileRows[i].file],
        folders |-> [i \in 1..Len(folderRows) |-> folderRows[i].folder],
        trash_count |-> Len(fileRows) + Len(folderRows),
        total_size |-> SumRowSizes(db.files, fileRows),
        days_until_auto_delete |->
            [i \in 1..Len(rows) |->
                LET days_until == rows[i].scheduled_permanent_deletion - t
                IN IF days_until > 0 THEN days_until ELSE 0]]

trash_view ==
    /\ resp' = TrashView(DB, now)
    /\ UNCHANGED <<files, folders, trash, blobs, used_storage>>
    /\ Frame

\* Thirty days go by
DaysPass ==
    /\ now < TrashDays * MaxTime
    /\ now' = now + TrashDays
    /\ UNCHANGED <<files, folders, trash, blobs, used_storage, plan, plans, links,
                   sessions, nextFile, nextFolder, resp, req>>

\* The trash schedule.  No management command, signal or view of the
\* repository reads scheduled_permanent_deletion to delete anything: the only
\* purges are the requests of the user.  Time is the one thing that goes on
\* by itself.
NextSchedule ==
    \/ \E size \in Sizes : upload_file(size)
    \/ \E f \in FileIds : move_to_trash(f)
    \/ \E f \in FileIds : restore_file(f)
    \/ \E f \in FileIds : permanent_delete_file(f, FALSE)
    \/ empty_trash(0)
    \/ trash_view
    \/ DaysPass

SpecSchedule ==
    /\ Init
    /\ [][NextSchedule]_vars
    /\ WF_vars(DaysPass)

\* The StoragePlan table from a database without plans: the default plans,
\* the free plan of the first profile, and the administrator's plan forms
InitPlans ==
    /\ files = <<>>
    /\ folders = <<>>
    /\ trash = <<>>
    /\ blobs = {}
    /\ used_storage = 0
    /\ plan \in Plans
    /\ now = 0
    /\ nextFile = 0
    /\ nextFolder = 0
    /\ resp = Response(TRUE, "", 0)
    /\ req = [w \in Workers |-> IdleReq]
    /\ links = <<>>
    /\ sessions = [s \in Sessions |-> {}]
    /\ plans = <<>>

NextPlans ==
    \/ create_default_plans
    \/ create_user_profile
    \/ \E plan_type \in {"free", "enterprise"}, a, b \in SizeInputs :
          admin_plan_create(plan_type, a, b)
    \/ \E plan_id \in 1..MaxPlans, a, b \in SizeInputs :
          admin_plan_edit(plan_id, a, b)

SpecPlans == InitPlans /\ [][NextPlans]_vars

\* File purges whose blob delete may raise (the object store is a remote
\* service)
NextFailures ==
    \/ \E size \in Sizes : upload_file(size)
    \/ \E f \in FileIds : move_to_trash(f)
    \/ \E f \in FileIds : restore_file(f)
    \/ \E f \in FileIds, storageFails \in BOOLEAN :
          permanent_delete_file(f, storageFails)
    \/ \E failAt \in 0..MaxFiles : empty_trash(failAt)

SpecFailures == Init /\ [][NextFailures]_vars

\* A file that is shared by link and goes to trash and back
NextShareTrash ==
    \/ \E e \in ExpiresIn, b \in BOOLEAN, p \in Passwords :
          create_share_link(1, e, b, p)
    \/ \E s \in Sessions, t \in Tokens, c \in Passwords :
          verify_share_password(s, t, c)
    \/ \E s \in Sessions, t \in Tokens : share_file(s, t)
    \/ move_to_trash(1)
    \/ restore_file(1)

SpecShareTrash == InitShare /\ [][NextShareTrash]_vars

\* ------------------------------------------------ store writes that raise
\* The handlers run without a transaction (no ATOMIC_REQUESTS, no
\* transaction.atomic): a write that raises leaves the writes made before
\* it in the store.  failAt: the number of the write that raises.
WriteFailures == 1..2

\* move_to_trash: write 1 is Trash.objects.create, write 2 file_obj.save()
MoveToTrashInterrupted(db, f, t, failAt) ==
    IF f \notin DOMAIN db.files
    THEN Result(db, Response(FALSE, "Http404", 0))
    ELSE LET db1 == [db EXCEPT !.trash = Append(db.trash,
                        TrashRow(f, NoFolder, db.files[f].folder, t))]
         IN Result(IF failAt = 1 THEN db ELSE db1,
                   Response(FALSE, "DatabaseError", 0))

move_to_trash_interrupted(f, failAt) ==
    LET r == MoveToTrashInterrupted(DB, f, now, failAt)
    IN Len(r.db.trash) <= MaxTrash /\ SetDB(r.db) /\ resp' = r.resp /\ Frame

\* move_folder_to_trash: write 1 is Trash.objects.create, write 2
\* folder.save()
MoveFolderToTrashInterrupted(db, F, t, failAt) ==
    IF F \notin DOMAIN db.folders \/ db.folders[F].is_deleted
    THEN Result(db, Response(FALSE, "Http404", 0))
    ELSE LET db1 == [db EXCEPT !.trash = Append(db.trash,
                        TrashRow(NoFile, F, db.folders[F].parent_folder, t))]
         IN Result(IF failAt = 1 THEN db ELSE db1,
                   Response(FALSE, "DatabaseError", 0))

move_folder_to_trash_interrupted(F, failAt) ==
    LET r == MoveFolderToTrashInterrupted(DB, F, now, failAt)
    IN Len(r.db.trash) <= MaxTrash /\ SetDB(r.db) /\ resp' = r.resp /\ Frame

\* restore_folder: write 1 is folder.save(), write 2 the first save or
\* delete after it
RestoreFolderInterrupted(db, F, failAt) ==
    LET err == TrashedFolderError(db, F)
    IN IF err # ""
       THEN Result(db, Response(FALSE, err, 0))
       ELSE LET db1 == [db EXCEPT !.folders[F].is_deleted = FALSE]
            IN Result(IF failAt = 1 THEN db ELSE db1,
                      Response(FALSE, "DatabaseError", 0))

restore_folder_interrupted(F, failAt) ==
    LET r == RestoreFolderInterrupted(DB, F, failAt)
    IN SetDB(r.db) /\ resp' = r.resp /\ Frame

NextInterrupted ==
    \/ \E f \in TreeFileIds : move_to_trash(f)
    \/ \E F \in FolderIds : move_folder_to_trash(F)
    \/ \E F \in FolderIds : restore_folder(F)
    \/ \E f \in TreeFileIds, failAt \in WriteFailures :
          move_to_trash_interrupted(f, failAt)
    \/ \E F \in FolderIds, failAt \in WriteFailures :
          move_folder_to_trash_interrupted(F, failAt)
    \/ \E F \in FolderIds, failAt \in WriteFailures :
          restore_folder_interrupted(F, failAt)

SpecInterrupted == InitTree /\ [][NextInterrupted]_vars

\* Purges in a folder tree put in trash, whose blob deletes may raise
NextPurgeFailures ==
    \/ \E F \in FolderIds : move_folder_to_trash(F)
    \/ \E f \in TreeFileIds, storageFails \in BOOLEAN :
          permanent_delete_file(f, storageFails)
    \/ \E failAt \in 0..TreeFiles : empty_trash(failAt)
    \/ \E F \in FolderIds, failAt \in 0..TreeFiles :
          permanent_delete_folder(F, failAt)

SpecPurgeFailures == InitTree /\ [][NextPurgeFailures]_vars

\* ================================================================ claims

\* C1: used_storage equals the sum of size over the File rows that exist,
\* in every state reached by uploads, trash, restore, purge and empty-trash.
QuotaConservation == used_storage = TotalSize(files)

\* C2: used_storage is never negative, whatever uploads, trash, restore,
\* purge, empty-trash and dashboard views have run.
NoNegativeQuota == used_storage >= 0

\* C3: two uploads of one user in parallel behave as if the check and the
\* increment were one step: the files admitted never exceed the plan's space
\* and, once no upload is in flight, used_storage is the sum of the sizes of
\* the files admitted.
UploadsAtomic ==
    /\ TotalSize(files) <= plan.max_storage_size
    /\ AllIdle => used_storage = TotalSize(files)

\* C4: purges of one trashed file in parallel take file.size off
\* used_storage at most once: once no purge is in flight, used_storage is
\* not below the sum of the sizes of the files left.
PurgeDecrementsOnce == AllIdle => used_storage >= TotalSize(files)

\* C5: an upload of size s is admitted if and only if s <= max_file_size and
\* used_storage + s <= max_storage_size; when admitted exactly one File row
\* of size s is added and used_storage grows by s, when rejected the File
\* rows and used_storage stay as they were.
Admitted(s) ==
    s <= plan.max_file_size /\ used_storage + s <= plan.max_storage_size

AdmissionRule ==
    [][\A s \in Sizes : upload_file(s) =>
          IF Admitted(s)
          THEN /\ resp'.success
               /\ \E id \in DOMAIN files' \ DOMAIN files :
                     /\ DOMAIN files' = DOMAIN files \cup {id}
                     /\ files'[id].size = s
                     /\ \A f \in DOMAIN files : files'[f] = files[f]
               /\ used_storage' = used_storage + s
          ELSE /\ ~resp'.success
               /\ files' = files
               /\ used_storage' = used_storage]_vars

\* a file of exactly max_file_size was admitted and filled the plan to the
\* last byte, and a further upload has been turned away for lack of space
AdmissionWitness ==
    /\ \E f \in DOMAIN files : files[f].size = plan.max_file_size
    /\ used_storage = plan.max_storage_size
    /\ resp.error = "StorageLimitExceeded"

\* C6: move_to_trash on a file sets is_deleted, appends one Trash row for
\* the file, scheduled 30 days after now and remembering the file's folder,
\* and leaves used_storage and every other row unchanged.
TrashFileEffect ==
    [][\A f \in DOMAIN files : move_to_trash(f) =>
          /\ files' = [files EXCEPT ![f].is_deleted = TRUE]
          /\ trash' = Append(trash,
                 [file |-> f, folder |-> NoFolder,
                  original_folder |-> files[f].folder,
                  scheduled_permanent_deletion |-> now + 30])
          /\ used_storage' = used_storage
          /\ blobs' = blobs]_vars

\* a file trashed on day 1 is flagged, is due on day 31 and still counts
TrashFileWitness ==
    \E i \in 1..Len(trash) :
        /\ trash[i].file \in DOMAIN files
        /\ files[trash[i].file].is_deleted
        /\ trash[i].scheduled_permanent_deletion = 31
        /\ used_storage = TotalSize(files)
        /\ used_storage > 0

\* ------------------------------------------------------- folder subtrees
\* the folders reached from the set S by following parent_folder downwards;
\* with activeOnly, through folders with is_deleted=false only
RECURSIVE FoldersBelow(_, _, _)
FoldersBelow(fo, S, activeOnly) ==
    LET T == S \cup {g \in DOMAIN fo :
                        /\ fo[g].parent_folder \in S
                        /\ activeOnly => ~fo[g].is_deleted}
    IN IF T = S THEN S ELSE FoldersBelow(fo, T, activeOnly)

SubtreeFolders(F) == FoldersBelow(folders, {F}, FALSE)
SubtreeFiles(F) == {f \in DOMAIN files : files[f].folder \in SubtreeFolders(F)}
ReachedFolders(F) == FoldersBelow(folders, {F}, TRUE)
ReachedFiles(F) ==
    {f \in DOMAIN files :
        files[f].folder \in ReachedFolders(F) /\ ~files[f].is_deleted}

FlippedFolders == {g \in DOMAIN folders :
                     ~folders[g].is_deleted /\ folders'[g].is_deleted}
FlippedFiles == {f \in DOMAIN files :
                   ~files[f].is_deleted /\ files'[f].is_deleted}
NewTrashRows == {i \in 1..Len(trash') : i > Len(trash)}

\* C7 as stated: trashing folder F whose subtree holds N files and M folders
\* (F included) creates exactly N+M Trash rows and flips exactly N+M items.
CascadeCountsWholeSubtree ==
    [][\A F \in DOMAIN folders :
          (move_folder_to_trash(F) /\ ~folders[F].is_deleted) =>
             LET n == Cardinality(SubtreeFiles(F)) + Cardinality(SubtreeFolders(F))
             IN /\ Len(trash') = Len(trash) + n
                /\ Cardinality(FlippedFolders) + Cardinality(FlippedFiles) = n]_vars

\* C7 amended: trashing an active folder F flips, and creates exactly one
\* Trash row (due in 30 days, original_folder = the immediate parent) for, F
\* and every folder and file of its subtree that is not in trash and is
\* reached from F through folders not in trash; nothing else changes.  The
\* number is N+M when nothing of F's subtree was in trash.
CascadeCountsReached ==
    [][\A F \in DOMAIN folders :
          (move_folder_to_trash(F) /\ ~folders[F].is_deleted) =>
             LET RF == ReachedFolders(F)
                 Rf == ReachedFiles(F)
             IN /\ SubSeq(trash', 1, Len(trash)) = trash
                /\ Len(trash') = Len(trash) + Cardinality(RF) + Cardinality(Rf)
                /\ \A g \in RF : \E i \in NewTrashRows :
                      trash'[i] = [file |-> NoFile, folder |-> g,
                                   original_folder |-> folders[g].parent_folder,
                                   scheduled_permanent_deletion |-> now + 30]
                /\ \A f \in Rf : \E i \in NewTrashRows :
                      trash'[i] = [file |-> f, folder |-> NoFolder,
                                   original_folder |-> files[f].folder,
                                   scheduled_permanent_deletion |-> now + 30]
                /\ FlippedFolders = RF
                /\ FlippedFiles = Rf
                /\ DOMAIN folders' = DOMAIN folders
                /\ DOMAIN files' = DOMAIN files
                /\ used_storage' = used_storage
                /\ (/\ \A g \in SubtreeFolders(F) : ~folders[g].is_deleted
                    /\ \A f \in SubtreeFiles(F) : ~files[f].is_deleted)
                   => Len(trash') = Len(trash) + Cardinality(SubtreeFolders(F))
                                      + Cardinality(SubtreeFiles(F))]_vars

\* folder A holds folder B holds file x; A was trashed: three rows, each
\* with its immediate parent
CascadeWitness ==
    \E A, B \in DOMAIN folders, x \in DOMAIN files :
        /\ folders[A].parent_folder = NoFolder
        /\ folders[B].parent_folder = A
        /\ files[x].folder = B
        /\ folders[A].is_deleted /\ folders[B].is_deleted /\ files[x].is_deleted
        /\ Len(trash) = 3
        /\ trash[1].folder = A /\ trash[1].original_folder = NoFolder
        /\ trash[2].folder = B /\ trash[2].original_folder = A
        /\ trash[3].file = x /\ trash[3].original_folder = B

EmptyTrashComplete ==
    [][empty_trash(0) =>
          /\ trash' = <<>>
          /\ \A i \in 1..Len(trash) :
                /\ trash[i].file # NoFile => trash[i].file \notin DOMAIN files'
                /\ trash[i].folder # NoFolder =>
                      trash[i].folder \notin DOMAIN folders']_vars

\* C11: empty_trash continues past an item whose purge fails.  When the
\* trash holds one row per trashed file and the blob delete of one item
\* raises while items are still to be visited, every other item is purged
\* (only the failed row is left) and the count returned is the number of
\* items purged.
OneRowPerFile ==
    /\ \A i \in 1..Len(trash) :
          trash[i].file \in DOMAIN files /\ files[trash[i].file].is_deleted
    /\ \A i, j \in 1..Len(trash) : trash[i].file = trash[j].file => i = j

EmptyTrashContinues ==
    [][\A failAt \in 1..MaxFiles :
          (OneRowPerFile /\ failAt < Len(trash) /\ empty_trash(failAt))
             => /\ Len(trash') = 1
                /\ resp'.count = Len(trash) - 1]_vars

\* C12: resolving a token whose link has expires_at in the past returns
\* Expired and no resource, for share_file, share_folder and
\* download_shared_folder, while is_active is true; the link rows are left as
\* they were (is_active is not changed).
InThePast(t) == links[t].expires_at # Never /\ links[t].expires_at < now

ExpiryPrecedence ==
    [][\A t \in DOMAIN links :
          (links[t].is_active /\ InThePast(t)) =>
             /\ \A s \in Sessions :
                   share_file(s, t) =>
                      resp' = ErrorPage("share_expired") /\ links' = links
             /\ \A s \in Sessions :
                   (links[t].folder # NoFolder /\ share_folder(s, t)) =>
                      resp' = ErrorPage("share_expired") /\ links' = links
             /\ (links[t].folder # NoFolder /\ download_shared_folder(t)) =>
                      resp' = ErrorPage("410") /\ links' = links]_vars

ExpiryWitness ==
    /\ 1 \in DOMAIN links
    /\ links[1].is_active /\ InThePast(1) /\ has_password(links[1])
    /\ resp = ErrorPage("share_expired")

\* C13: a link with expires_at in the past is inert for verifyPassword too:
\* verify_share_password on it fails and leaves the session store unchanged.
ExpiredVerifyInert ==
    [][\A t \in DOMAIN links, s \in Sessions, c \in Passwords :
          (InThePast(t) /\ verify_share_password(s, t, c)) =>
             ~resp'.success /\ sessions' = sessions]_vars

\* C14: a step records the flag of token t in session s only if a
\* verify_share_password for t succeeds with the session s itself, and it
\* leaves every other session as it was.
PasswordIsolation ==
    [][\A t \in Tokens, s \in Sessions :
          (t \in sessions'[s] /\ t \notin sessions[s]) =>
             /\ \E c \in Passwords :
                   VerifySharePassword(sessions[s], t, c).resp.success
             /\ \A b \in Sessions \ {s} : sessions'[b] = sessions[b]]_vars

IsolationWitness ==
    \E t \in Tokens, a, b \in Sessions :
        t \in sessions[a] /\ t \notin sessions[b]

\* C15: verify_share_password on an existing link records the session's flag
\* for the token exactly when the link is password-protected and the
\* candidate hashes to the stored hash; on a link without password it fails
\* as not password protected, on a wrong or empty candidate it fails as an
\* invalid (or missing) password, and a failure leaves the session unchanged.
VerifyPasswordRule ==
    [][\A t \in DOMAIN links, s \in Sessions, c \in Passwords :
          verify_share_password(s, t, c) =>
             LET l == links[t]
                 protected == l.require_password /\ l.password_hash # NoHash
                 matches == c # <<>> /\
                    l.password_hash =
                       [algorithm |-> "pbkdf2_sha256", password |-> c]
             IN /\ (protected /\ matches) =>
                      resp'.success /\
                      sessions' = [sessions EXCEPT ![s] = @ \cup {t}]
                /\ ~protected =>
                      resp' = Response(FALSE,
                         "This share link is not password protected", 0)
                /\ (protected /\ ~matches) =>
                      ~resp'.success /\
                      resp'.error \in {"Password is required",
                                       "Invalid password"}
                /\ ~(protected /\ matches) => sessions' = sessions]_vars

VerifyPasswordWitness ==
    /\ 1 \in DOMAIN links /\ has_password(links[1])
    /\ 1 \in sessions[1]
    /\ resp = Response(FALSE, "Invalid password", 0)

\* C16: the files a folder share link lists are exactly the files with
\* is_deleted = FALSE that hang below the shared folder through folders that
\* are not deleted, the shared folder included: nothing inside a subtree
\* rooted at a trashed folder is listed.
RECURSIVE ActivePathTo(_, _)
ActivePathTo(g, F) ==
    /\ g \in DOMAIN folders
    /\ ~folders[g].is_deleted
    /\ g = F \/ ActivePathTo(folders[g].parent_folder, F)

ReachableActiveFiles(F) ==
    {f \in DOMAIN files :
        ~files[f].is_deleted /\ ActivePathTo(files[f].folder, F)}

ShareFolderListing ==
    [][\A t \in DOMAIN links, s \in Sessions :
          (links[t].folder \in DOMAIN folders /\ share_folder(s, t)) =>
             /\ resp'.template = "share_folder"
             /\ resp'.listed = ReachableActiveFiles(links[t].folder)]_vars

\* C17: in every reachable state, following parent_folder from any folder
\* ends at null within as many hops as there are folders, and no step puts a
\* folder under another folder (so none puts it under itself or under one of
\* its descendants): a step leaves parent_folder as it was or sets it to null.
RECURSIVE ReachesNull(_, _)
ReachesNull(g, hops) ==
    \/ g = NoFolder
    \/ /\ hops > 0
       /\ g \in DOMAIN folders
       /\ ReachesNull(folders[g].parent_folder, hops - 1)

Acyclic ==
    \A F \in DOMAIN folders : ReachesNull(F, Cardinality(DOMAIN folders))

FoldersAcyclic ==
    /\ []Acyclic
    /\ [][\A F \in DOMAIN folders \cap DOMAIN folders' :
             folders'[F].parent_folder \in
                {folders[F].parent_folder, NoFolder}]_vars

AcyclicWitness ==
    /\ Cardinality(DOMAIN folders) >= 2
    /\ \E F \in DOMAIN folders : folders[F].is_deleted

\* C18: create_folder fails with DuplicateName when the owner has a folder
\* of that name under the same parent (null included): no two folders share
\* (name, parent_folder).
UniqueFolderNames ==
    \A a, b \in DOMAIN folders :
        (folders[a].name = folders[b].name /\
         folders[a].parent_folder = folders[b].parent_folder) => a = b

\* C19: a File or Folder row is removed only while it is in trash
\* (is_deleted = TRUE): no step removes an active file or folder.
PurgedOnlyFromTrash ==
    [][/\ \A F \in DOMAIN folders \ DOMAIN folders' : folders[F].is_deleted
       /\ \A f \in DOMAIN files \ DOMAIN files' : files[f].is_deleted]_vars

\* C20: a Trash record whose scheduled_permanent_deletion <= now is purged
\* by the scheduled sweep: a file that is in trash with a record that is due
\* is eventually purged (or restored), whether or not the user asks for it.
Due(f) ==
    /\ f \in DOMAIN files /\ files[f].is_deleted
    /\ \E i \in 1..Len(trash) :
          trash[i].file = f /\ trash[i].scheduled_permanent_deletion <= now

DueEventuallyPurged ==
    \A f \in FileIds :
        Due(f) ~> (f \notin DOMAIN files \/ ~files[f].is_deleted)

\* C21: every StoragePlan row has max_file_size <= max_storage_size, after
\* any sequence of default-plan creation and of plan create and plan edit by
\* an administrator.
PlanSizesOrdered ==
    \A i \in DOMAIN plans : plans[i].max_file_size <= plans[i].max_storage_size


\* C22: when the blob delete of a file raises during a purge
\* (permanent_delete_file, empty_trash, permanent_delete_folder), the row of
\* that file and the Trash records that refer to it are still there after
\* the request.
RowsKept(f) ==
    /\ f \in DOMAIN files' /\ files'[f] = files[f]
    /\ SelectSeq(trash', LAMBDA r : r.file = f)
          = SelectSeq(trash, LAMBDA r : r.file = f)

PurgeFailureKeepsRows ==
    [][/\ \A f \in TreeFileIds :
            (permanent_delete_file(f, TRUE) /\ resp'.error = "StorageError")
               => RowsKept(f)
       /\ \A failAt \in 1..TreeFiles :
            (empty_trash(failAt) /\ resp'.error = "StorageError")
               => RowsKept(Reverse(trash)[failAt].file)
       /\ \A F \in FolderIds, failAt \in 1..TreeFiles :
            (permanent_delete_folder(F, failAt) /\ resp'.error = "StorageError")
               => RowsKept(SortedSeq(FilesIn(files, F))[failAt])]_vars

PurgeFailureWitness ==
    /\ resp.error = "StorageError"
    /\ \E f \in DOMAIN files :
          /\ files[f].is_deleted
          /\ TrashOfFile(trash, f) # {}
          /\ files[f].folder # NoFolder
          /\ folders[files[f].folder].is_deleted


NodesWhole ==
    /\ \A f \in DOMAIN files :
          files[f].is_deleted <=> TrashOfFile(trash, f) # {}
    /\ \A F \in DOMAIN folders :
          folders[F].is_deleted <=> TrashOfFolder(trash, F) # {}

InterruptedRequestsAtomic ==
    [][\A failAt \in WriteFailures :
          /\ \A f \in TreeFileIds :
                (NodesWhole /\ move_to_trash_interrupted(f, failAt))
                   => NodesWhole'
          /\ \A F \in FolderIds :
                (NodesWhole /\ move_folder_to_trash_interrupted(F, failAt))
                   => NodesWhole'
          /\ \A F \in FolderIds :
                (NodesWhole /\ restore_folder_interrupted(F, failAt))
                   => NodesWhole']_vars


\* C25: viewing the dashboard leaves used_storage unchanged (used_storage is
\* written by the upload and purge handlers only).
DashboardKeepsQuota ==
    [][dashboard => used_storage' = used_storage]_vars


\* C26: the content behind a password-protected link (the file page with its
\* download URL, the folder listing, the folder zip) is returned only to a
\* session that holds the verified flag of the token: share_file and
\* share_folder give a session without the flag no download URL and no
\* listing, and while no session holds the flag download_shared_folder
\* returns no zip.
PasswordGate ==
    [][\A t \in DOMAIN links :
          has_password(links[t]) =>
             /\ \A s \in Sessions :
                   (t \notin sessions[s] /\ (share_file(s, t) \/ share_folder(s, t)))
                      => resp'.download_url = NoFile /\ resp'.listed = {}
             /\ ((\A s \in Sessions : t \notin sessions[s])
                   /\ download_shared_folder(t))
                      => resp'.template # "zip" /\ resp'.listed = {}]_vars


\* C27: after any sequence of trash, restore (file, folder, restore-all) and
\* purge requests, no file and no folder that is not in trash lies in a
\* folder with is_deleted = true.
NoActiveNodeInTrashedFolder ==
    /\ \A f \in DOMAIN files :
          (~files[f].is_deleted /\ files[f].folder # NoFolder)
             => ~folders[files[f].folder].is_deleted
    /\ \A g \in DOMAIN folders :
          (~folders[g].is_deleted /\ folders[g].parent_folder # NoFolder)
             => ~folders[folders[g].parent_folder].is_deleted


\* C28: a file or folder has is_deleted = true exactly when exactly one
\* Trash record refers to it; trashing a file that is already in trash does
\* not create a second record.
ExactlyOneTrashRecord ==
    /\ \A f \in DOMAIN files :
          /\ files[f].is_deleted => Cardinality(TrashOfFile(trash, f)) = 1
          /\ ~files[f].is_deleted => TrashOfFile(trash, f) = {}
    /\ \A F \in DOMAIN folders :
          /\ folders[F].is_deleted => Cardinality(TrashOfFolder(trash, F)) = 1
          /\ ~folders[F].is_deleted => TrashOfFolder(trash, F) = {}


\* C29: a file that is in trash is never served to an anonymous visitor:
\* share_file returns no download URL for a link whose file has
\* is_deleted = true.
TrashedFileNotShared ==
    [][\A s \in Sessions, t \in DOMAIN links :
          (/\ links[t].file \in DOMAIN files
           /\ files[links[t].file].is_deleted
           /\ share_file(s, t))
             => resp'.download_url = NoFile]_vars


\* C30: every folder has parent_folder null after any sequence of
\* create_folder, trash, restore and delete requests: all folders are roots,
\* no folder has a subfolder, and the loops over subfolders of the trash,
\* restore, purge and share traversals have nothing to visit.
AllFoldersAreRoots ==
    \A F \in DOMAIN folders :
       /\ folders[F].parent_folder = NoFolder
       /\ SubfoldersOf(folders, F) = {}
       /\ ActiveSubfolders(DB, F) = <<>>
       /\ DeletedSubfolders(DB, F) = <<>>

RootsWitness ==
    /\ \E F \in DOMAIN folders :
          folders[F].is_deleted /\ TrashOfFolder(trash, F) # {}
    /\ \E F \in DOMAIN folders : ~folders[F].is_deleted
    /\ resp = Response(TRUE, "", 0)

====
